---------------------------- MODULE Spec2Model ----------------------------
(***************************************************************************)
(* FRA Flight Tracker: the runway prediction engine of src/app.js          *)
(* (geodesy, flight classification, configuration detection, runway        *)
(* scoring and the runPredictions pipeline) as a state machine.            *)
(*                                                                         *)
(* Units.  JavaScript numbers are modelled in fixed point:                 *)
(*   distances            metres            (10 km        = 10000)         *)
(*   altitudes            metres                                           *)
(*   headings, bearings   whole degrees                                    *)
(*   vertical rates       tenths of m/s     (-3 m/s       = -30)           *)
(*   coordinates          microdegrees      (50.0267      = 50026700)      *)
(*   scores               1/9 metre         (xtd + 5*|diff|/180 km)        *)
(*   confidences          1/90000           (1.0          = 90000)         *)
(* In these units every product and quotient the engine forms on the       *)
(* sampled inputs is an exact integer.                                     *)
(***************************************************************************)
EXTENDS Integers, Sequences, FiniteSets, TLC

VARIABLES
    flights,        \* let flights = []   (app.js:109): the current batch
    activeConfig,   \* let activeConfig   (app.js:106): null or a key of CONFIGS
    phase,          \* position of fetchFlights: "idle", "fetching", "done"
    raised,         \* TRUE when the last run threw (caught at app.js:743)
    runs,           \* number of runPredictions calls on the current batch
    pc,             \* statement-level run: the statement of runPredictions reached
    cur,            \* statement-level run: index of the flight in the loop body
    stmt,           \* statement-level run: position in the body of the first loop
    todo,           \* statement-level run: flights the current loop has not visited
    log,            \* statement-level run: the statements executed so far, in order
    probe           \* a direct call of an engine function: its arguments and result

vars == <<flights, activeConfig, phase, raised, runs, pc, cur, stmt, todo, log, probe>>

-----------------------------------------------------------------------------
(* JavaScript values *)

Undefined == [t |-> "undefined"]
Null      == [t |-> "null"]
Num(n)    == [t |-> "number", v |-> n]
Bool(b)   == [t |-> "boolean", v |-> b]
Str(s)    == [t |-> "string", v |-> s]

\* x == null  (true of null and of undefined)
IsNullish(x) == x.t \in {"null", "undefined"}

\* !!x for the values the engine tests
Truthy(x) ==
    CASE x.t = "boolean" -> x.v
      [] x.t = "number"  -> x.v # 0
      [] x.t = "string"  -> x.v # ""
      [] OTHER           -> FALSE

\* x < n and x > n for a number literal n: ToNumber(null) is 0,
\* ToNumber(undefined) is NaN and every comparison with NaN is false
JsLt(x, n) ==
    CASE x.t = "number" -> x.v < n
      [] x.t = "null"   -> 0 < n
      [] OTHER          -> FALSE

JsGt(x, n) ==
    CASE x.t = "number" -> x.v > n
      [] x.t = "null"   -> 0 > n
      [] OTHER          -> FALSE

\* ToNumber(x) where the engine does arithmetic on a field (null is 0)
ToNumber(x) == IF x.t = "number" THEN x.v ELSE 0

Abs(n) == IF n < 0 THEN -n ELSE n

Min(a, b) == IF a < b THEN a ELSE b

\* a % m of JavaScript: the result takes the sign of the dividend
JsRem(a, m) == IF a >= 0 THEN a % m ELSE -((-a) % m)

-----------------------------------------------------------------------------
(* Constants *)

FRA == [lat |-> 50026700, lng |-> 8558400]

ARRIVING_MAX_ALT == 4000

ARRIVING_MAX_DIST == 80000

RunwayIds == <<"25R", "25C", "25L", "07L", "07C", "07R">>

\* variant: each runway of a direction has a nominal heading of its own
RUNWAYS_ownHeadings ==
    "25R" :> [heading |-> 250, line |-> 1] @@
    "25C" :> [heading |-> 249, line |-> 2] @@
    "25L" :> [heading |-> 248, line |-> 3] @@
    "07L" :> [heading |-> 70,  line |-> 4] @@
    "07C" :> [heading |-> 69,  line |-> 5] @@
    "07R" :> [heading |-> 68,  line |-> 6]

RUNWAYS ==
    "25R" :> [heading |-> 249, line |-> 1] @@
    "25C" :> [heading |-> 249, line |-> 2] @@
    "25L" :> [heading |-> 249, line |-> 3] @@
    "07L" :> [heading |-> 69,  line |-> 4] @@
    "07C" :> [heading |-> 69,  line |-> 5] @@
    "07R" :> [heading |-> 69,  line |-> 6]

CONFIGS ==
    "westerly" :> <<"25R", "25C", "25L">> @@
    "easterly" :> <<"07L", "07C", "07R">>

-----------------------------------------------------------------------------
(* Geodesy.  haversine, bearing and crossTrackDistance are trigonometric;  *)
(* GeoRows tabulates them at the sampled coordinates: for each (lat, lon)  *)
(* the value of haversine(lat, lon, FRA) in metres, of                     *)
(* bearing(FRA, lat, lon) and bearing(lat, lon, FRA) in degrees, and of    *)
(* crossTrackDistance(lat, lon, threshold, opposite) in metres for the six *)
(* RUNWAYS in the order of RunwayIds, each rounded to the unit.  The       *)
(* samples are the points at 3, 10, 18, 27, 35, 60 and 90 km from FRA on   *)
(* the eight bearings 0, 45, .., 315, four points between the centrelines  *)
(* of 25R and 25C at 10, 27, 35 and 60 km, and the point 6.2 km east of    *)
(* the field at (50.05396448595971, 8.634256122775001), for which the      *)
(* cross-track distances to 25C and 25L are the same floating-point        *)
(* number.                                                                 *)
GeoRows == <<
    [lat |-> 50053680, lon |-> 8558400, dist |-> 3000, brgFrom |-> 0, brgTo |-> 180,
     xtd |-> <<210, 1605, 2118, 210, 1605, 2118>>],
    [lat |-> 50045774, lon |-> 8588108, dist |-> 3000, brgFrom |-> 45, brgTo |-> 225,
     xtd |-> <<1349, 43, 551, 1349, 43, 551>>],
    [lat |-> 50026692, lon |-> 8600396, dist |-> 3000, brgFrom |-> 90, brgTo |-> 270,
     xtd |-> <<3643, 2252, 1744, 3643, 2252, 1744>>],
    [lat |-> 50007619, lon |-> 8588084, dist |-> 3000, brgFrom |-> 135, brgTo |-> 315,
     xtd |-> <<5329, 3934, 3422, 5329, 3934, 3422>>],
    [lat |-> 49999720, lon |-> 8558400, dist |-> 3000, brgFrom |-> 180, brgTo |-> 0,
     xtd |-> <<5418, 4019, 3500, 5418, 4019, 3500>>],
    [lat |-> 50007619, lon |-> 8528716, dist |-> 3000, brgFrom |-> 225, brgTo |-> 45,
     xtd |-> <<3858, 2457, 1932, 3858, 2457, 1932>>],
    [lat |-> 50026692, lon |-> 8516404, dist |-> 3000, brgFrom |-> 270, brgTo |-> 90,
     xtd |-> <<1564, 163, 363, 1564, 163, 363>>],
    [lat |-> 50045774, lon |-> 8528692, dist |-> 3000, brgFrom |-> 315, brgTo |-> 135,
     xtd |-> <<121, 1520, 2041, 121, 1520, 2041>>],
    [lat |-> 50116632, lon |-> 8558400, dist |-> 10000, brgFrom |-> 0, brgTo |-> 180,
     xtd |-> <<6776, 8167, 8672, 6776, 8167, 8672>>],
    [lat |-> 50090249, lon |-> 8657517, dist |-> 10000, brgFrom |-> 45, brgTo |-> 225,
     xtd |-> <<1578, 2959, 3447, 1578, 2959, 3447>>],
    [lat |-> 50026616, lon |-> 8698387, dist |-> 10000, brgFrom |-> 90, brgTo |-> 270,
     xtd |-> <<6069, 4689, 4203, 6069, 4689, 4203>>],
    [lat |-> 49963066, lon |-> 8657255, dist |-> 10000, brgFrom |-> 135, brgTo |-> 315,
     xtd |-> <<11687, 10298, 9795, 11687, 10298, 9795>>],
    [lat |-> 49936768, lon |-> 8558400, dist |-> 10000, brgFrom |-> 180, brgTo |-> 0,
     xtd |-> <<11984, 10581, 10054, 11984, 10581, 10054>>],
    [lat |-> 49963066, lon |-> 8459545, dist |-> 10000, brgFrom |-> 225, brgTo |-> 45,
     xtd |-> <<6786, 5374, 4828, 6786, 5374, 4828>>],
    [lat |-> 50026616, lon |-> 8418413, dist |-> 10000, brgFrom |-> 270, brgTo |-> 90,
     xtd |-> <<862, 2275, 2821, 862, 2275, 2821>>],
    [lat |-> 50090249, lon |-> 8459283, dist |-> 10000, brgFrom |-> 315, brgTo |-> 135,
     xtd |-> <<6480, 7884, 8413, 6480, 7884, 8413>>],
    [lat |-> 50188578, lon |-> 8558400, dist |-> 18000, brgFrom |-> 0, brgTo |-> 180,
     xtd |-> <<14281, 15666, 16163, 14281, 15666, 16163>>],
    [lat |-> 50141028, lon |-> 8737000, dist |-> 18000, brgFrom |-> 45, brgTo |-> 225,
     xtd |-> <<4924, 6292, 6756, 4924, 6292, 6756>>],
    [lat |-> 50026427, lon |-> 8810376, dist |-> 18000, brgFrom |-> 90, brgTo |-> 270,
     xtd |-> <<8842, 7475, 7012, 8842, 7475, 7012>>],
    [lat |-> 49912099, lon |-> 8736151, dist |-> 18000, brgFrom |-> 135, brgTo |-> 315,
     xtd |-> <<18954, 17571, 17078, 18954, 17571, 17078>>],
    [lat |-> 49864822, lon |-> 8558400, dist |-> 18000, brgFrom |-> 180, brgTo |-> 0,
     xtd |-> <<19488, 18081, 17544, 19488, 18081, 17544>>],
    [lat |-> 49912099, lon |-> 8380649, dist |-> 18000, brgFrom |-> 225, brgTo |-> 45,
     xtd |-> <<10132, 8707, 8138, 10132, 8707, 8138>>],
    [lat |-> 50026427, lon |-> 8306424, dist |-> 18000, brgFrom |-> 270, brgTo |-> 90,
     xtd |-> <<3635, 5061, 5631, 3635, 5061, 5631>>],
    [lat |-> 50141028, lon |-> 8379800, dist |-> 18000, brgFrom |-> 315, brgTo |-> 135,
     xtd |-> <<13746, 15156, 15697, 13746, 15156, 15697>>],
    [lat |-> 50269517, lon |-> 8558400, dist |-> 27000, brgFrom |-> 0, brgTo |-> 180,
     xtd |-> <<22723, 24103, 24589, 22723, 24103, 24589>>],
    [lat |-> 50198089, lon |-> 8826621, dist |-> 27000, brgFrom |-> 45, brgTo |-> 225,
     xtd |-> <<8688, 10042, 10480, 8688, 10042, 10480>>],
    [lat |-> 50026086, lon |-> 8936363, dist |-> 27000, brgFrom |-> 90, brgTo |-> 270,
     xtd |-> <<11961, 10609, 10173, 11961, 10609, 10173>>],
    [lat |-> 49854697, lon |-> 8824710, dist |-> 27000, brgFrom |-> 135, brgTo |-> 315,
     xtd |-> <<27129, 25752, 25271, 27129, 25752, 25271>>],
    [lat |-> 49783883, lon |-> 8558400, dist |-> 27000, brgFrom |-> 180, brgTo |-> 0,
     xtd |-> <<27930, 26517, 25971, 27930, 26517, 25971>>],
    [lat |-> 49854697, lon |-> 8292090, dist |-> 27000, brgFrom |-> 225, brgTo |-> 45,
     xtd |-> <<13896, 12456, 11861, 13896, 12456, 11861>>],
    [lat |-> 50026086, lon |-> 8180437, dist |-> 27000, brgFrom |-> 270, brgTo |-> 90,
     xtd |-> <<6754, 8194, 8792, 6754, 8194, 8792>>],
    [lat |-> 50198089, lon |-> 8290179, dist |-> 27000, brgFrom |-> 315, brgTo |-> 135,
     xtd |-> <<21922, 23338, 23890, 21922, 23338, 23890>>],
    [lat |-> 50341463, lon |-> 8558400, dist |-> 35000, brgFrom |-> 0, brgTo |-> 180,
     xtd |-> <<30227, 31602, 32080, 30227, 31602, 32080>>],
    [lat |-> 50248752, lon |-> 8906463, dist |-> 35000, brgFrom |-> 45, brgTo |-> 225,
     xtd |-> <<12034, 13375, 13790, 12034, 13375, 13790>>],
    [lat |-> 50025669, lon |-> 9048349, dist |-> 35000, brgFrom |-> 90, brgTo |-> 270,
     xtd |-> <<14734, 13394, 12983, 14734, 13394, 12983>>],
    [lat |-> 49803617, lon |-> 8903252, dist |-> 35000, brgFrom |-> 135, brgTo |-> 315,
     xtd |-> <<34396, 33025, 32555, 34396, 33025, 32555>>],
    [lat |-> 49711937, lon |-> 8558400, dist |-> 35000, brgFrom |-> 180, brgTo |-> 0,
     xtd |-> <<35435, 34017, 33461, 35435, 34017, 33461>>],
    [lat |-> 49803617, lon |-> 8213548, dist |-> 35000, brgFrom |-> 225, brgTo |-> 45,
     xtd |-> <<17241, 15789, 15171, 17241, 15789, 15171>>],
    [lat |-> 50025669, lon |-> 8068451, dist |-> 35000, brgFrom |-> 270, brgTo |-> 90,
     xtd |-> <<9526, 10980, 11601, 9526, 10980, 11601>>],
    [lat |-> 50248752, lon |-> 8210337, dist |-> 35000, brgFrom |-> 315, brgTo |-> 135,
     xtd |-> <<29188, 30610, 31173, 29188, 30610, 31173>>],
    [lat |-> 50566293, lon |-> 8558400, dist |-> 60000, brgFrom |-> 0, brgTo |-> 180,
     xtd |-> <<53678, 55038, 55487, 53678, 55038, 55487>>],
    [lat |-> 50406719, lon |-> 9157068, dist |-> 60000, brgFrom |-> 45, brgTo |-> 225,
     xtd |-> <<22489, 23791, 24133, 22489, 23791, 24133>>],
    [lat |-> 50023669, lon |-> 9398289, dist |-> 60000, brgFrom |-> 90, brgTo |-> 271,
     xtd |-> <<23398, 22099, 21762, 23398, 22099, 21762>>],
    [lat |-> 49643649, lon |-> 9147632, dist |-> 60000, brgFrom |-> 135, brgTo |-> 315,
     xtd |-> <<57104, 55752, 55315, 57104, 55752, 55315>>],
    [lat |-> 49487107, lon |-> 8558400, dist |-> 60000, brgFrom |-> 180, brgTo |-> 0,
     xtd |-> <<58885, 57452, 56869, 58885, 57452, 56869>>],
    [lat |-> 49643649, lon |-> 7969168, dist |-> 60000, brgFrom |-> 225, brgTo |-> 45,
     xtd |-> <<27697, 26205, 25514, 27697, 26205, 25514>>],
    [lat |-> 50023669, lon |-> 7718511, dist |-> 60000, brgFrom |-> 270, brgTo |-> 89,
     xtd |-> <<18190, 19685, 20381, 18190, 19685, 20381>>],
    [lat |-> 50406719, lon |-> 7959732, dist |-> 60000, brgFrom |-> 315, brgTo |-> 135,
     xtd |-> <<51897, 53337, 53933, 51897, 53337, 53933>>],
    [lat |-> 50836089, lon |-> 8558400, dist |-> 90000, brgFrom |-> 0, brgTo |-> 180,
     xtd |-> <<81818, 83160, 83576, 81818, 83160, 83576>>],
    [lat |-> 50595564, lon |-> 9460004, dist |-> 90000, brgFrom |-> 45, brgTo |-> 226,
     xtd |-> <<35035, 36289, 36544, 35035, 36289, 36544>>],
    [lat |-> 50019881, lon |-> 9818167, dist |-> 90000, brgFrom |-> 90, brgTo |-> 271,
     xtd |-> <<33794, 32545, 32298, 33794, 32545, 32298>>],
    [lat |-> 49451015, lon |-> 9438772, dist |-> 90000, brgFrom |-> 135, brgTo |-> 316,
     xtd |-> <<84354, 83023, 82626, 84354, 83023, 82626>>],
    [lat |-> 49217311, lon |-> 8558400, dist |-> 90000, brgFrom |-> 180, brgTo |-> 0,
     xtd |-> <<87025, 85574, 84957, 87025, 85574, 84957>>],
    [lat |-> 49451015, lon |-> 7678028, dist |-> 90000, brgFrom |-> 225, brgTo |-> 44,
     xtd |-> <<40242, 38703, 37925, 40242, 38703, 37925>>],
    [lat |-> 50019881, lon |-> 7298633, dist |-> 90000, brgFrom |-> 270, brgTo |-> 89,
     xtd |-> <<28587, 30131, 30917, 28587, 30131, 30917>>],
    [lat |-> 50595564, lon |-> 7656796, dist |-> 90000, brgFrom |-> 315, brgTo |-> 134,
     xtd |-> <<79147, 80609, 81245, 79147, 80609, 81245>>],
    [lat |-> 50071800, lon |-> 8679600, dist |-> 10002, brgFrom |-> 60, brgTo |-> 240,
     xtd |-> <<891, 489, 974, 891, 489, 974>>],
    [lat |-> 50124800, lon |-> 8904500, dist |-> 27000, brgFrom |-> 66, brgTo |-> 246,
     xtd |-> <<869, 481, 911, 869, 481, 911>>],
    [lat |-> 50149400, lon |-> 9010200, dist |-> 35002, brgFrom |-> 67, brgTo |-> 247,
     xtd |-> <<871, 464, 869, 871, 464, 869>>],
    [lat |-> 50225900, lon |-> 9340600, dist |-> 59998, brgFrom |-> 68, brgTo |-> 249,
     xtd |-> <<837, 454, 779, 837, 454, 779>>],
    [lat |-> 50053964, lon |-> 8634256, dist |-> 6208, brgFrom |-> 61, brgTo |-> 241,
     xtd |-> <<1634, 248, 248, 1634, 248, 248>>]
>>

\* the rows by coordinate
GeoIndex ==
    [c \in {<<GeoRows[k].lat, GeoRows[k].lon>> : k \in 1..Len(GeoRows)} |->
        CHOOSE r \in {GeoRows[k] : k \in 1..Len(GeoRows)} :
            r.lat = c[1] /\ r.lon = c[2]]

\* the row of the coordinate held by the fields latitude and longitude
GeoAt(lat, lon) == GeoIndex[<<ToNumber(lat), ToNumber(lon)>>]

\* haversine(lat, lon, FRA.lat, FRA.lng), the only distance runPredictions takes
haversine(lat, lon) == GeoAt(lat, lon).dist

\* bearing(FRA.lat, FRA.lng, lat, lon): from the airport to the aircraft
bearingFromFRA(lat, lon) == GeoAt(lat, lon).brgFrom

\* bearing(lat, lon, FRA.lat, FRA.lng): from the aircraft to the airport
bearingToFRA(lat, lon) == GeoAt(lat, lon).brgTo

\* crossTrackDistance(lat, lon, rwy.threshold, rwy.opposite)
crossTrackDistance(lat, lon, rwyName) == GeoAt(lat, lon).xtd[RUNWAYS[rwyName].line]

\* angleDiff without the wrap of results below -180
angleDiff_noWrap(a, b) == JsRem(a - b + 180, 360) - 180

\* Normalize angle difference to [-180, 180]
angleDiff(a, b) ==
    LET diff == JsRem(a - b + 180, 360) - 180
    IN  IF diff < -180 THEN diff + 360 ELSE diff

-----------------------------------------------------------------------------
(* Configuration detection *)

\* variant: a candidate need not be descending
isCandidate_anyVerticalRate(f) ==
    /\ ~IsNullish(f.baroAltitude)
    /\ JsLt(f.baroAltitude, ARRIVING_MAX_ALT)
    /\ ~IsNullish(f.heading)
    /\ JsLt(f.distanceToAirport, ARRIVING_MAX_DIST)

isCandidate(f) ==
    /\ ~IsNullish(f.baroAltitude)
    /\ JsLt(f.baroAltitude, ARRIVING_MAX_ALT)
    /\ ~IsNullish(f.heading)
    /\ ~IsNullish(f.verticalRate)
    /\ JsLt(f.verticalRate, -10)
    /\ JsLt(f.distanceToAirport, ARRIVING_MAX_DIST)

\* the candidates of a batch, in batch order
Candidates(fs) == SelectSeq(fs, isCandidate)

votesWesterly(f) == Abs(angleDiff(ToNumber(f.heading), 250)) < 40

\* variant: the easterly test accepts either direction along the runway axis
votesEasterly_eitherDirection(f) ==
    \/ Abs(angleDiff(ToNumber(f.heading), 70)) < 40
    \/ Abs(angleDiff(ToNumber(f.heading), 250)) < 40

votesEasterly(f) == Abs(angleDiff(ToNumber(f.heading), 70)) < 40

westerlyVotes(fs) ==
    Cardinality({k \in 1..Len(Candidates(fs)) : votesWesterly(Candidates(fs)[k])})

easterlyVotes(fs) ==
    Cardinality({k \in 1..Len(Candidates(fs)) : votesEasterly(Candidates(fs)[k])})

\* variant: a tie goes to easterly (> for >=)
detectConfiguration_tieEasterly(fs) ==
    IF Len(Candidates(fs)) = 0
    THEN "westerly"
    ELSE IF westerlyVotes(fs) > easterlyVotes(fs) THEN "westerly" ELSE "easterly"

\* variant: the first candidate that votes decides, no count is taken
detectConfiguration_firstCandidate(fs) ==
    LET voters == {k \in 1..Len(Candidates(fs)) :
                      votesWesterly(Candidates(fs)[k]) \/ votesEasterly(Candidates(fs)[k])}
    IN  IF voters = {}
        THEN "westerly"
        ELSE LET first == Candidates(fs)[CHOOSE k \in voters : \A j \in voters : k <= j]
             IN  IF votesWesterly(first) THEN "westerly" ELSE "easterly"

detectConfiguration(fs) ==
    IF Len(Candidates(fs)) = 0
    THEN "westerly"
    ELSE IF westerlyVotes(fs) >= easterlyVotes(fs) THEN "westerly" ELSE "easterly"

-----------------------------------------------------------------------------
(* Flight classification *)

departRule1(f) ==
    /\ JsLt(f.distanceToAirport, 30000)
    /\ ~IsNullish(f.verticalRate) /\ JsGt(f.verticalRate, 20)

departRule2(f) ==
    /\ JsLt(f.distanceToAirport, 15000)
    /\ JsLt(f.baroAltitude, 1500)
    /\ ~IsNullish(f.verticalRate) /\ JsGt(f.verticalRate, 5)

departRule3(f) ==
    /\ JsLt(f.distanceToAirport, 25000)
    /\ JsLt(f.baroAltitude, 2000)
    /\ ~IsNullish(f.heading)
    /\ LET diffNS1 == Abs(angleDiff(ToNumber(f.heading), 180))
           diffNS2 == Abs(angleDiff(ToNumber(f.heading), 360))
       IN  /\ (diffNS1 < 25 \/ diffNS2 < 25)
           /\ ~IsNullish(f.verticalRate) /\ JsGt(f.verticalRate, 0)

\* variant: the bearing is taken from the aircraft to the airport
departRule4_towardsAirport(f) ==
    /\ JsLt(f.distanceToAirport, 40000)
    /\ JsLt(f.baroAltitude, 3000)
    /\ ~IsNullish(f.heading)
    /\ ~IsNullish(f.verticalRate) /\ JsGt(f.verticalRate, 10)
    /\ LET bearingToAircraft == bearingToFRA(f.latitude, f.longitude)
           diff == Abs(angleDiff(ToNumber(f.heading), bearingToAircraft))
       IN  diff < 40

departRule4(f) ==
    /\ JsLt(f.distanceToAirport, 40000)
    /\ JsLt(f.baroAltitude, 3000)
    /\ ~IsNullish(f.heading)
    /\ ~IsNullish(f.verticalRate) /\ JsGt(f.verticalRate, 10)
    /\ LET bearingToAircraft == bearingFromFRA(f.latitude, f.longitude)
           diff == Abs(angleDiff(ToNumber(f.heading), bearingToAircraft))
       IN  diff < 40

\* variant: the altitude is not tested for null
isDeparting_noAltitudeGuard(f) ==
    IF IsNullish(f.distanceToAirport)
    THEN FALSE
    ELSE departRule1(f) \/ departRule2(f) \/ departRule3(f) \/ departRule4(f)

isDeparting(f) ==
    IF IsNullish(f.distanceToAirport) \/ IsNullish(f.baroAltitude)
    THEN FALSE
    ELSE departRule1(f) \/ departRule2(f) \/ departRule3(f) \/ departRule4(f)

\* variant: isArriving without the test of line 421
isArriving_ignoresDeparting(f) ==
    IF IsNullish(f.baroAltitude) \/ IsNullish(f.heading) THEN FALSE
    ELSE IF JsGt(f.distanceToAirport, ARRIVING_MAX_DIST) THEN FALSE
    ELSE IF JsGt(f.baroAltitude, ARRIVING_MAX_ALT) THEN FALSE
    ELSE IF ~IsNullish(f.verticalRate) /\ JsGt(f.verticalRate, 30) THEN FALSE
    ELSE LET diffWest == Abs(angleDiff(ToNumber(f.heading), 249))
             diffEast == Abs(angleDiff(ToNumber(f.heading), 69))
         IN  IF diffWest > 50 /\ diffEast > 50 THEN FALSE
             ELSE IF JsGt(f.distanceToAirport, 5000)
                     /\ Abs(angleDiff(ToNumber(f.heading),
                                      bearingToFRA(f.latitude, f.longitude))) > 70
                  THEN FALSE
                  ELSE TRUE

\* variant: the approach test uses the bearing from the airport to the aircraft
isArriving_bearingFromAirport(f) ==
    IF IsNullish(f.baroAltitude) \/ IsNullish(f.heading) THEN FALSE
    ELSE IF JsGt(f.distanceToAirport, ARRIVING_MAX_DIST) THEN FALSE
    ELSE IF JsGt(f.baroAltitude, ARRIVING_MAX_ALT) THEN FALSE
    ELSE IF isDeparting(f) THEN FALSE
    ELSE IF ~IsNullish(f.verticalRate) /\ JsGt(f.verticalRate, 30) THEN FALSE
    ELSE LET diffWest == Abs(angleDiff(ToNumber(f.heading), 249))
             diffEast == Abs(angleDiff(ToNumber(f.heading), 69))
         IN  IF diffWest > 50 /\ diffEast > 50 THEN FALSE
             ELSE IF JsGt(f.distanceToAirport, 5000)
                     /\ Abs(angleDiff(ToNumber(f.heading),
                                      bearingFromFRA(f.latitude, f.longitude))) > 70
                  THEN FALSE
                  ELSE TRUE

isArriving(f) ==
    IF IsNullish(f.baroAltitude) \/ IsNullish(f.heading) THEN FALSE
    ELSE IF JsGt(f.distanceToAirport, ARRIVING_MAX_DIST) THEN FALSE
    ELSE IF JsGt(f.baroAltitude, ARRIVING_MAX_ALT) THEN FALSE
    ELSE IF isDeparting(f) THEN FALSE
    ELSE IF ~IsNullish(f.verticalRate) /\ JsGt(f.verticalRate, 30) THEN FALSE
    ELSE LET diffWest == Abs(angleDiff(ToNumber(f.heading), 249))
             diffEast == Abs(angleDiff(ToNumber(f.heading), 69))
         IN  IF diffWest > 50 /\ diffEast > 50 THEN FALSE
             ELSE IF JsGt(f.distanceToAirport, 5000)
                     /\ Abs(angleDiff(ToNumber(f.heading),
                                      bearingToFRA(f.latitude, f.longitude))) > 70
                  THEN FALSE
                  ELSE TRUE

-----------------------------------------------------------------------------
(* Runway scoring *)

ConfOne == 90000

\* score = xtd + headingPenalty * 5, in 1/9 m
scoreOf(f, rwyName) ==
    9 * crossTrackDistance(f.latitude, f.longitude, rwyName)
    + 250 * Abs(angleDiff(ToNumber(f.heading), RUNWAYS[rwyName].heading))

\* scores[rwyName] in insertion order, which is the order of activeRunways
scoresOf(f, activeRunways) ==
    [k \in 1..Len(activeRunways) |-> scoreOf(f, activeRunways[k])]

\* variant: the comparison is <=, so the last of several equal minima wins
bestAfter_lastWins(sc, activeRunways, k) ==
    IF k = 0
    THEN [runway |-> Null, score |-> 0, inf |-> TRUE]
    ELSE LET last == CHOOSE j \in 1..k :
                         /\ \A i \in 1..k : sc[j] <= sc[i]
                         /\ \A i \in (j + 1)..k : sc[j] < sc[i]
         IN  [runway |-> Str(activeRunways[last]), score |-> sc[last], inf |-> FALSE]

\* the forEach of app.js:460-481 after its first k iterations;
\* inf marks bestScore = Infinity
RECURSIVE bestAfter(_, _, _)
bestAfter(sc, activeRunways, k) ==
    IF k = 0
    THEN [runway |-> Null, score |-> 0, inf |-> TRUE]
    ELSE LET b == bestAfter(sc, activeRunways, k - 1)
         IN  IF b.inf \/ sc[k] < b.score
             THEN [runway |-> Str(activeRunways[k]), score |-> sc[k], inf |-> FALSE]
             ELSE b

\* scoreValues.find((s) => s !== bestScore) || bestScore
otherScoreOf(sc, bestScore) ==
    LET differing == {k \in 1..Len(sc) : sc[k] # bestScore}
    IN  IF differing = {}
        THEN bestScore
        ELSE LET found == sc[CHOOSE k \in differing : \A j \in differing : k <= j]
             IN  IF found = 0 THEN bestScore ELSE found

\* variant: the two boosts are not clamped
confidenceOf_noClamp(f, separation, headingDiff) ==
    LET base == Min(ConfOne, 45000 + 5 * separation)
        near == IF JsLt(f.distanceToAirport, 20000) /\ headingDiff < 10
                THEN base + 18000
                ELSE base
        far  == IF JsGt(f.distanceToAirport, 50000) THEN (near * 6) \div 10
                ELSE IF JsGt(f.distanceToAirport, 30000) THEN (near * 8) \div 10
                ELSE near
    IN  IF ~IsNullish(f.verticalRate) /\ JsLt(f.verticalRate, -20)
        THEN far + 9000
        ELSE far

\* variant: the descent boost is applied before the distance factor
confidenceOf_descentFirst(f, separation, headingDiff) ==
    LET base == Min(ConfOne, 45000 + 5 * separation)
        near == IF JsLt(f.distanceToAirport, 20000) /\ headingDiff < 10
                THEN Min(ConfOne, base + 18000)
                ELSE base
        desc == IF ~IsNullish(f.verticalRate) /\ JsLt(f.verticalRate, -20)
                THEN Min(ConfOne, near + 9000)
                ELSE near
    IN  IF JsGt(f.distanceToAirport, 50000) THEN (desc * 6) \div 10
        ELSE IF JsGt(f.distanceToAirport, 30000) THEN (desc * 8) \div 10
        ELSE desc

\* the confidence of app.js:489-506
confidenceOf(f, separation, headingDiff) ==
    LET base == Min(ConfOne, 45000 + 5 * separation)
        near == IF JsLt(f.distanceToAirport, 20000) /\ headingDiff < 10
                THEN Min(ConfOne, base + 18000)
                ELSE base
        far  == IF JsGt(f.distanceToAirport, 50000) THEN (near * 6) \div 10
                ELSE IF JsGt(f.distanceToAirport, 30000) THEN (near * 8) \div 10
                ELSE near
    IN  IF ~IsNullish(f.verticalRate) /\ JsLt(f.verticalRate, -20)
        THEN Min(ConfOne, far + 9000)
        ELSE far

\* CONFIGS[config] is undefined for any other config, and activeRunways[0]
\* then throws a TypeError
\* the prediction for a flight taken as arriving (app.js:453-508)
scoreRunways(f, config) ==
    LET activeRunways == CONFIGS[config]
        rwyHeading    == RUNWAYS[activeRunways[1]].heading
        headingDiff   == Abs(angleDiff(ToNumber(f.heading), rwyHeading))
        sc            == scoresOf(f, activeRunways)
        best          == bestAfter(sc, activeRunways, Len(activeRunways))
        otherScore    == otherScoreOf(sc, best.score)
        separation    == otherScore - best.score
    IN  [runway |-> best.runway,
         confidence |-> Num(confidenceOf(f, separation, headingDiff))]

\* variant: every flight is scored, arriving or not
predictRunway_noGuard(f, config) == scoreRunways(f, config)

\* the key activeConfig is used as
ToConfig(x) == IF x.t = "string" THEN x.v ELSE "null"

predictThrows(f, config) == Truthy(f.isArriving) /\ config \notin DOMAIN CONFIGS

predictRunway(f, config) ==
    IF ~Truthy(f.isArriving)
    THEN [runway |-> Null, confidence |-> Num(0)]
    ELSE scoreRunways(f, config)

-----------------------------------------------------------------------------
(* The pipeline *)

\* app.js:517
setDistance(f) ==
    [f EXCEPT !.distanceToAirport = Num(haversine(f.latitude, f.longitude))]

\* app.js:518
setDeparting(f) == [f EXCEPT !.isDeparting = Bool(isDeparting(f))]

\* app.js:519
setArriving(f) == [f EXCEPT !.isArriving = Bool(isArriving(f))]

\* variant: the distance is written after the classification
classify_distanceLast(f) == setDistance(setArriving(setDeparting(f)))

\* the body of the first forEach, app.js:516-520
classify(f) == setArriving(setDeparting(setDistance(f)))

\* flights.filter(f => f.isArriving || !f.isDeparting), app.js:523
configInput(fs) ==
    SelectSeq(fs, LAMBDA f : Truthy(f.isArriving) \/ ~Truthy(f.isDeparting))

\* variant: the configuration is detected for each aircraft on its own
predict_perAircraft(f, config) ==
    LET prediction == predictRunway(f, detectConfiguration(<<f>>))
    IN  [f EXCEPT !.predictedRunway = prediction.runway,
                  !.confidence = prediction.confidence]

\* the body of the second forEach, app.js:526-530
predict(f, config) ==
    LET prediction == predictRunway(f, config)
    IN  [f EXCEPT !.predictedRunway = prediction.runway,
                  !.confidence = prediction.confidence]

\* the index of the first flight whose predictRunway call throws, 0 if none
firstThrow(fs, config) ==
    LET throwing == {k \in 1..Len(fs) : predictThrows(fs[k], config)}
    IN  IF throwing = {} THEN 0
        ELSE CHOOSE k \in throwing : \A j \in throwing : k <= j

\* runPredictions(flights): the records it leaves, the activeConfig it sets and
\* whether it threw; a throw leaves the later flights without a prediction
runPredictions(fs) ==
    LET classified == [k \in 1..Len(fs) |-> classify(fs[k])]
        config     == detectConfiguration(configInput(classified))
        stop       == firstThrow(classified, config)
    IN  [flights |-> [k \in 1..Len(fs) |->
                         IF stop = 0 \/ k < stop
                         THEN predict(classified[k], config)
                         ELSE classified[k]],
         activeConfig |-> Str(config),
         threw |-> stop # 0]

-----------------------------------------------------------------------------
(* Telemetry: the state vectors a response can hold *)

MaxBatch == 2

MaxRuns == 2

Coords(rows) == {<<GeoRows[k].lat, GeoRows[k].lon>> : k \in rows}

StateVector(p, alt, hdg, vr) ==
    [latitude |-> Num(p[1]), longitude |-> Num(p[2]), baroAltitude |-> alt,
     onGround |-> FALSE, heading |-> hdg, verticalRate |-> vr]

Known(S) == {Num(n) : n \in S}

Optional(S) == {Null} \cup Known(S)

\* one aircraft at every sampled coordinate, with every altitude band,
\* heading sector and vertical-rate band the rules distinguish
AllVectors ==
    {StateVector(p, alt, hdg, vr) :
        p \in Coords(1..Len(GeoRows)),
        alt \in Optional({1000, 1800, 2500, 3500, 5000}),
        hdg \in Optional({0, 70, 110, 180, 250, 290}),
        vr \in Optional({-30, -15, 0, 3, 8, 15, 30, 35})}

\* the traffic of a batch: 10 km north-east or west of the field, low,
\* landing westbound or eastbound, descending or climbing, any field absent
TrafficVectors ==
    {StateVector(p, alt, hdg, vr) :
        p \in Coords({10, 15}),
        alt \in Optional({1000}),
        hdg \in Optional({70, 250}),
        vr \in Optional({-30, 30})}

\* records the filter of app.js:730 drops
DroppedVectors ==
    {[StateVector(p, Num(0), Num(250), Num(0)) EXCEPT !.onGround = TRUE] :
        p \in Coords({2})}
    \cup
    {[StateVector(p, Num(1000), Num(250), Num(-30)) EXCEPT !.latitude = Null] :
        p \in Coords({10})}

\* the object fetchFlights builds from a state vector (app.js:715-729);
\* a property runPredictions has not set yet reads as undefined
parseState(s) ==
    [latitude |-> s.latitude, longitude |-> s.longitude,
     baroAltitude |-> s.baroAltitude, onGround |-> s.onGround,
     heading |-> s.heading, verticalRate |-> s.verticalRate,
     distanceToAirport |-> Undefined, isDeparting |-> Undefined,
     isArriving |-> Undefined, predictedRunway |-> Undefined,
     confidence |-> Undefined]

\* .filter((f) => f.latitude != null && f.longitude != null && !f.onGround)
keepState(f) ==
    ~IsNullish(f.latitude) /\ ~IsNullish(f.longitude) /\ ~f.onGround

\* the telemetry fields of a record, without what runPredictions derives
rawOf(f) ==
    [latitude |-> f.latitude, longitude |-> f.longitude,
     baroAltitude |-> f.baroAltitude, onGround |-> f.onGround,
     heading |-> f.heading, verticalRate |-> f.verticalRate]

-----------------------------------------------------------------------------
(* fetchFlights, one telemetry cycle *)

\* no function has been called directly
NoCall == [fn |-> "none"]

StepIdle == pc = "idle" /\ cur = 0 /\ stmt = 0 /\ todo = {} /\ log = <<>>

Init ==
    /\ flights = <<>>
    /\ activeConfig = Null
    /\ phase = "idle"
    /\ raised = FALSE
    /\ runs = 0
    /\ StepIdle
    /\ probe = NoCall

\* the timer fires (app.js:766, 769) and a response arrives
FetchFlights ==
    /\ phase \in {"idle", "done"}
    /\ phase' = "fetching"
    /\ flights' = <<>>
    /\ raised' = FALSE
    /\ runs' = 0
    /\ UNCHANGED <<activeConfig, pc, cur, stmt, todo, log>>
    /\ UNCHANGED probe

\* the next state vector of the response is mapped and filtered (app.js:714-730)
ParseState(s) ==
    /\ phase = "fetching"
    /\ Len(flights) < MaxBatch
    /\ flights' = IF keepState(parseState(s))
                  THEN Append(flights, parseState(s))
                  ELSE flights
    /\ UNCHANGED <<activeConfig, phase, raised, runs, pc, cur, stmt, todo, log>>
    /\ UNCHANGED probe

\* runPredictions(flights) on the parsed batch (app.js:733)
RunPredictions ==
    /\ phase = "fetching"
    /\ LET r == runPredictions(flights)
       IN  /\ flights' = r.flights
           /\ activeConfig' = r.activeConfig
           /\ raised' = r.threw
    /\ phase' = "done"
    /\ runs' = 1
    /\ UNCHANGED <<pc, cur, stmt, todo, log>>
    /\ UNCHANGED probe

\* runPredictions again on the records it returned
RunAgain ==
    /\ phase = "done"
    /\ ~raised
    /\ runs < MaxRuns
    /\ LET r == runPredictions(flights)
       IN  /\ flights' = r.flights
           /\ activeConfig' = r.activeConfig
           /\ raised' = r.threw
    /\ runs' = runs + 1
    /\ UNCHANGED <<phase, pc, cur, stmt, todo, log>>
    /\ UNCHANGED probe

Next ==
    \/ FetchFlights
    \/ \E s \in TrafficVectors \cup DroppedVectors : ParseState(s)
    \/ RunPredictions
    \/ RunAgain

Spec == Init /\ [][Next]_vars

-----------------------------------------------------------------------------
(* One aircraft: runPredictions on every single-flight batch *)

InitOne ==
    /\ \E s \in AllVectors : flights = <<parseState(s)>>
    /\ activeConfig \in {Null, Str("westerly"), Str("easterly")}
    /\ phase = "fetching"
    /\ raised = FALSE
    /\ runs = 0
    /\ StepIdle
    /\ probe = NoCall

NextOne == RunPredictions \/ RunAgain

SpecOne == InitOne /\ [][NextOne]_vars

-----------------------------------------------------------------------------
(* runPredictions statement by statement.  forEach visits the array in     *)
(* ascending order; here a loop may visit the flights it has left in any   *)
(* order, which covers every order in which the per-flight work can be     *)
(* scheduled.  log records the statements executed.                        *)

\* variant: isDeparting is evaluated before the distance is written
classifyBody_departingFirst == <<"departing", "distance", "arriving">>

\* the statements of the body of the first forEach (app.js:517-519)
classifyBody == <<"distance", "departing", "arriving">>

\* the three parts of runPredictions (app.js:516, 523, 526)
runBody == <<"classify", "detect", "predict">>

\* the part that follows part p of runBody, "return" after the last
partAfter(p) ==
    LET k == CHOOSE j \in 1..Len(runBody) : runBody[j] = p
    IN  IF k = Len(runBody) THEN "return" ELSE runBody[k + 1]

Event(op, i) == [op |-> op, flight |-> i]

\* the batches the statement-level runs start from
StepVectors ==
    {StateVector(p, alt, hdg, vr) :
        p \in Coords({10, 15}),
        alt \in Known({1000}),
        hdg \in Known({70, 250}),
        vr \in Known({-30, 30})}

StepBatches ==
    UNION {[1..n -> {parseState(s) : s \in StepVectors}] : n \in 0..MaxBatch}

InitSteps ==
    /\ flights \in StepBatches
    /\ activeConfig = Null
    /\ phase = "fetching"
    /\ raised = FALSE
    /\ runs = 0
    /\ StepIdle
    /\ probe = NoCall

\* entry of runPredictions or of its next part
EnterPart(p) ==
    /\ pc' = p
    /\ cur' = 0
    /\ stmt' = 0
    /\ todo' = IF p \in {"classify", "predict"} THEN 1..Len(flights) ELSE {}

Call ==
    /\ phase = "fetching"
    /\ pc = "idle"
    /\ EnterPart(runBody[1])
    /\ runs' = 1
    /\ UNCHANGED <<flights, activeConfig, phase, raised, log>>
    /\ UNCHANGED probe

\* the first forEach takes the next flight
ClassifyNext(i) ==
    /\ pc = "classify"
    /\ cur = 0
    /\ i \in todo
    /\ cur' = i
    /\ stmt' = 1
    /\ UNCHANGED <<flights, activeConfig, phase, raised, runs, pc, todo, log>>
    /\ UNCHANGED probe

\* one statement of the body of the first forEach
ClassifyStmt ==
    /\ pc = "classify"
    /\ cur # 0
    /\ LET s == classifyBody[stmt]
           f == flights[cur]
       IN  /\ flights' = [flights EXCEPT ![cur] =
                            CASE s = "distance"  -> setDistance(f)
                              [] s = "departing" -> setDeparting(f)
                              [] s = "arriving"  -> setArriving(f)]
           /\ log' = Append(log, Event(s, cur))
    /\ IF stmt < Len(classifyBody)
       THEN /\ stmt' = stmt + 1
            /\ UNCHANGED <<cur, todo>>
       ELSE /\ stmt' = 0
            /\ cur' = 0
            /\ todo' = todo \ {cur}
    /\ UNCHANGED <<activeConfig, phase, raised, runs, pc>>
    /\ UNCHANGED probe

\* a forEach has visited every flight
LoopDone ==
    /\ pc \in {"classify", "predict"}
    /\ cur = 0
    /\ todo = {}
    /\ IF partAfter(pc) = "return"
       THEN /\ pc' = "returned"
            /\ phase' = "done"
            /\ UNCHANGED <<cur, stmt, todo>>
       ELSE /\ EnterPart(partAfter(pc))
            /\ UNCHANGED phase
    /\ UNCHANGED <<flights, activeConfig, raised, runs, log>>
    /\ UNCHANGED probe

\* activeConfig = detectConfiguration(flights.filter(...)), app.js:523
Detect ==
    /\ pc = "detect"
    /\ activeConfig' = Str(detectConfiguration(configInput(flights)))
    /\ log' = Append(log, Event("detect", 0))
    /\ IF partAfter(pc) = "return"
       THEN /\ pc' = "returned"
            /\ phase' = "done"
            /\ UNCHANGED <<cur, stmt, todo>>
       ELSE /\ EnterPart(partAfter(pc))
            /\ UNCHANGED phase
    /\ UNCHANGED <<flights, raised, runs>>
    /\ UNCHANGED probe

\* the body of the second forEach for flight i, app.js:527-529
PredictFlight(i) ==
    /\ pc = "predict"
    /\ i \in todo
    /\ log' = Append(log, Event("predict", i))
    /\ IF predictThrows(flights[i], ToConfig(activeConfig))
       THEN /\ raised' = TRUE
            /\ pc' = "returned"
            /\ phase' = "done"
            /\ UNCHANGED <<flights, todo>>
       ELSE /\ flights' = [flights EXCEPT ![i] = predict(flights[i], ToConfig(activeConfig))]
            /\ todo' = todo \ {i}
            /\ UNCHANGED <<raised, pc, phase>>
    /\ UNCHANGED <<activeConfig, runs, cur, stmt>>
    /\ UNCHANGED probe

NextSteps ==
    \/ Call
    \/ \E i \in 1..MaxBatch : ClassifyNext(i)
    \/ ClassifyStmt
    \/ LoopDone
    \/ Detect
    \/ \E i \in 1..MaxBatch : PredictFlight(i)

SpecSteps == InitSteps /\ [][NextSteps]_vars

-----------------------------------------------------------------------------
(* Properties *)

Returned == phase = "done"

Flights == 1..Len(flights)

True == Bool(TRUE)

False == Bool(FALSE)

\* C1: after runPredictions, for every flight of the batch, predictedRunway is
\* null exactly when isArriving is false, and a flight with isArriving false has
\* confidence 0.
C1_RunwayIffArriving ==
    Returned =>
        \A k \in Flights :
            /\ (flights[k].predictedRunway = Null) <=> (flights[k].isArriving = False)
            /\ flights[k].isArriving = False => flights[k].confidence = Num(0)

\* a batch with an arriving flight that has a runway and a flight that is not
\* arriving and has none
C1_Witness ==
    /\ Returned
    /\ \E j \in Flights, k \in Flights :
        /\ flights[j].isArriving = True
        /\ flights[j].predictedRunway.t = "string"
        /\ flights[k].isArriving = False
        /\ flights[k].predictedRunway = Null
        /\ flights[k].confidence = Num(0)

\* C2: after runPredictions every confidence is a number in [0, 1], in every
\* distance band, aligned or not, descending or not, after the +0.2 boost, the
\* x0.6 / x0.8 reduction and the +0.1 boost.
C2_ConfidenceInRange ==
    Returned =>
        \A k \in Flights :
            /\ flights[k].confidence.t = "number"
            /\ 0 <= flights[k].confidence.v
            /\ flights[k].confidence.v <= ConfOne

\* an arriving flight inside 20 km, aligned with the runway heading and
\* descending faster than 2 m/s, whose runways are more than 1 km apart in
\* score: base 1, both boosts apply and both clamps act
C2_Witness ==
    /\ Returned
    /\ \E k \in Flights :
        /\ flights[k].isArriving = True
        /\ flights[k].distanceToAirport.v < 20000
        /\ flights[k].heading = Num(250)
        /\ flights[k].verticalRate = Num(-30)
        /\ flights[k].predictedRunway = Str("25R")
        /\ scoreOf(flights[k], "25C") - scoreOf(flights[k], "25R") > 9000
        /\ flights[k].confidence = Num(ConfOne)

\* C3: one run uses one configuration for every flight: every predictedRunway
\* present after the run is one of the three runways of activeConfig.
C3_OneConfiguration ==
    Returned =>
        /\ activeConfig \in {Str("westerly"), Str("easterly")}
        /\ \A k \in Flights :
            flights[k].predictedRunway # Null =>
                /\ flights[k].predictedRunway.t = "string"
                /\ \E n \in 1..3 :
                    flights[k].predictedRunway.v = CONFIGS[activeConfig.v][n]

\* a batch with a westbound and an eastbound arrival, both with a runway
C3_Witness ==
    /\ Returned
    /\ \E j \in Flights, k \in Flights :
        /\ flights[j].heading = Num(250)
        /\ flights[k].heading = Num(70)
        /\ flights[j].predictedRunway.t = "string"
        /\ flights[k].predictedRunway.t = "string"

\* the candidates and votes of section 4.3, from the telemetry fields
C4_Eligible(f) ==
    /\ f.baroAltitude.t = "number" /\ f.baroAltitude.v < 4000
    /\ f.heading.t = "number"
    /\ f.verticalRate.t = "number" /\ f.verticalRate.v < -10
    /\ f.distanceToAirport.t = "number" /\ f.distanceToAirport.v < 80000

C4_Votes(target) ==
    Cardinality({k \in 1..Len(configInput(flights)) :
        /\ C4_Eligible(configInput(flights)[k])
        /\ Abs(angleDiff(configInput(flights)[k].heading.v, target)) < 40})

\* C4: detectConfiguration returns easterly only when strictly more candidates
\* vote easterly than westerly; on a tie, with no candidate and on an empty batch
\* it returns westerly.
C4_EasterlyOnlyOnMajority ==
    Returned =>
        /\ activeConfig = Str("easterly") <=> C4_Votes(70) > C4_Votes(250)
        /\ activeConfig = Str("westerly") <=> C4_Votes(70) <= C4_Votes(250)

\* a tie of one vote each, decided westerly
C4_Witness ==
    /\ Returned
    /\ C4_Votes(70) = 1
    /\ C4_Votes(250) = 1
    /\ activeConfig = Str("westerly")

\* the records fetchFlights would build from the telemetry of the batch
FreshBatch == [k \in Flights |-> parseState(rawOf(flights[k]))]

\* C5: runPredictions is deterministic and idempotent: after any number of runs
\* on a batch, the records and activeConfig are those of one run on fresh records
\* of the same telemetry, whatever activeConfig and the derived fields held.
C5_Idempotent ==
    Returned =>
        /\ flights = runPredictions(FreshBatch).flights
        /\ activeConfig = runPredictions(FreshBatch).activeConfig

\* a second run over the records of a first one, with an arrival and a departure
C5_Witness ==
    /\ Returned
    /\ runs = 2
    /\ \E j \in Flights, k \in Flights :
        /\ flights[j].isArriving = True
        /\ flights[k].isDeparting = True

\* the positions of the log at which an event stands
At(e) == {n \in 1..Len(log) : log[n] = e}

Before(m, n) == m < n

\* C6: the parts of a run are ordered: the distance of a flight is written
\* before isDeparting or isArriving is evaluated for it, and detectConfiguration
\* has completed, over a batch classified in full, before predictRunway is
\* invoked for any flight.
C6_PhasesOrdered ==
    \A n \in 1..Len(log) :
        /\ log[n].op \in {"departing", "arriving"} =>
               \E m \in At(Event("distance", log[n].flight)) : Before(m, n)
        /\ log[n].op = "predict" =>
               \E m \in At(Event("detect", 0)) :
                   /\ Before(m, n)
                   /\ \A i \in Flights :
                       /\ \E j \in At(Event("departing", i)) : Before(j, m)
                       /\ \E j \in At(Event("arriving", i)) : Before(j, m)

\* a complete run over two or more flights
C6_Witness ==
    /\ pc = "returned"
    /\ Len(flights) >= 2
    /\ \A i \in Flights : At(Event("predict", i)) # {}

BatchOrders == {p \in [Flights -> Flights] : \A i, j \in Flights : p[i] = p[j] => i = j}

\* C7: the result does not depend on the order of the flights: however the
\* per-flight steps were interleaved, and for every permutation of the batch,
\* each flight has the fields and the batch the activeConfig that
\* runPredictions gives the permuted batch.
C7_OrderIndependent ==
    pc = "returned" =>
        \A p \in BatchOrders :
            LET r == runPredictions([k \in Flights |-> FreshBatch[p[k]]])
            IN  /\ r.activeConfig = activeConfig
                /\ \A k \in Flights : r.flights[k] = flights[p[k]]

\* a run that classified and scored flight 2 before flight 1, over a batch
\* with a candidate of each configuration
C7_Witness ==
    /\ pc = "returned"
    /\ Len(flights) >= 2
    /\ \E m \in At(Event("arriving", 2)), n \in At(Event("distance", 1)) : Before(m, n)
    /\ \E m \in At(Event("predict", 2)), n \in At(Event("predict", 1)) : Before(m, n)
    /\ \E j \in Flights, k \in Flights :
        /\ isCandidate(flights[j]) /\ votesWesterly(flights[j])
        /\ isCandidate(flights[k]) /\ votesEasterly(flights[k])

Assigned(x) == x.t # "undefined"

\* C8: whatever of altitude, heading and vertical rate is absent, the run
\* completes without raising and assigns every derived field; a rule whose field
\* is absent does not match: no altitude, neither departing nor arriving; no
\* heading, not arriving and no runway; no vertical rate, not departing; and a
\* flight with a field absent is no candidate for the configuration.
C8_AbsentFieldsFailRules ==
    Returned =>
        /\ ~raised
        /\ \A k \in Flights :
            LET f == flights[k]
            IN  /\ Assigned(f.distanceToAirport) /\ Assigned(f.isDeparting)
                /\ Assigned(f.isArriving) /\ Assigned(f.predictedRunway)
                /\ Assigned(f.confidence)
                /\ f.baroAltitude = Null =>
                       f.isDeparting = False /\ f.isArriving = False
                /\ f.heading = Null =>
                       f.isArriving = False /\ f.predictedRunway = Null
                /\ f.verticalRate = Null => f.isDeparting = False
        /\ (\A k \in Flights :
                Null \in {flights[k].baroAltitude, flights[k].heading,
                          flights[k].verticalRate})
               => activeConfig = Str("westerly")

\* a flight 10 km out climbing at 3 m/s with no altitude: null < 1500 is true
\* in JavaScript, and only the guard keeps rule 2 from matching
C8_Witness ==
    /\ Returned
    /\ \E k \in Flights :
        /\ flights[k].baroAltitude = Null
        /\ flights[k].verticalRate = Num(8)
        /\ flights[k].distanceToAirport = Num(10000)
        /\ flights[k].isDeparting = False

\* the flight of the example: 10 km, 1000 m, heading 250, descending at 3 m/s
C9_Example(f) ==
    /\ f.distanceToAirport = Num(10000)
    /\ f.baroAltitude = Num(1000)
    /\ f.heading = Num(250)
    /\ f.verticalRate = Num(-30)

\* C9 as claimed: such a flight is arriving and not departing wherever it is
\* around the airport.
C9_AsClaimed ==
    Returned =>
        \A k \in Flights :
            C9_Example(flights[k]) =>
                flights[k].isArriving = True /\ flights[k].isDeparting = False

\* C9, amended: such a flight is not departing wherever it is, and it is
\* arriving exactly when the bearing from the aircraft to the airport differs
\* from its heading by at most 70 degrees.
C9_ArrivingWhenApproaching ==
    Returned =>
        \A k \in Flights :
            C9_Example(flights[k]) =>
                /\ flights[k].isDeparting = False
                /\ flights[k].isArriving = True <=>
                       Abs(angleDiff(250, GeoAt(flights[k].latitude,
                                                flights[k].longitude).brgTo)) <= 70

\* the example flight north-east of the field, tracking toward it
C9_Witness ==
    /\ Returned
    /\ \E k \in Flights :
        /\ C9_Example(flights[k])
        /\ GeoAt(flights[k].latitude, flights[k].longitude).brgFrom = 45
        /\ flights[k].isArriving = True

\* the four rules of section 4.2, on the numbers of the record
C10_Rules(f) ==
    LET d   == f.distanceToAirport.v
        alt == f.baroAltitude.v
        hdg == f.heading.v
        vr  == f.verticalRate.v
        hasHdg == f.heading.t = "number"
        hasVr  == f.verticalRate.t = "number"
    IN  \/ d < 30000 /\ hasVr /\ vr > 20
        \/ d < 15000 /\ alt < 1500 /\ hasVr /\ vr > 5
        \/ /\ d < 25000 /\ alt < 2000 /\ hasHdg /\ hasVr /\ vr > 0
           /\ \E runwayHeading \in {180, 360} :
                  Abs(angleDiff(hdg, runwayHeading)) < 25
        \/ /\ d < 40000 /\ alt < 3000 /\ hasHdg /\ hasVr /\ vr > 10
           /\ Abs(angleDiff(hdg, GeoAt(f.latitude, f.longitude).brgFrom)) < 40

Degrees == 0..360

\* a call that has not returned yet holds undefined as its result
Pending(fn, args) == [fn |-> fn, args |-> args, result |-> Undefined]

InitAngle ==
    /\ flights = <<>>
    /\ activeConfig = Null
    /\ phase = "idle"
    /\ raised = FALSE
    /\ runs = 0
    /\ StepIdle
    /\ \E a \in Degrees, b \in Degrees : probe = Pending("angleDiff", <<a, b>>)

\* angleDiff(a, b) returns
AngleDiffCall ==
    /\ probe.fn = "angleDiff"
    /\ probe.result = Undefined
    /\ probe' = [probe EXCEPT !.result = Num(angleDiff(probe.args[1], probe.args[2]))]
    /\ UNCHANGED <<flights, activeConfig, phase, raised, runs, pc, cur, stmt, todo, log>>

NextAngle == AngleDiffCall

SpecAngle == InitAngle /\ [][NextAngle]_vars

\* ---------------------------------------------------------------------------
\* Direct calls of detectConfiguration (app.js:330-359), one candidate per step
\* ---------------------------------------------------------------------------

\* a classified aircraft 10 km north-east of the field at 1000 m, descending
\* at 3 m/s on heading h
Approaching(h) ==
    classify(parseState(StateVector(<<GeoRows[10].lat, GeoRows[10].lon>>,
                                    Num(1000), Num(h), Num(-30))))

\* a batch with one aircraft on every whole-degree heading, h0 first
CircleFrom(h0) == [k \in 1..360 |-> Approaching((h0 + k - 1) % 360)]

\* the batches detectConfiguration is called with: the empty one, and the
\* full circle from each of the eight compass points
VoteBatches == {<<>>} \cup {CircleFrom(h0) : h0 \in {0, 45, 90, 135, 180, 225, 270, 315}}

InitVotes ==
    /\ flights = <<>>
    /\ activeConfig = Null
    /\ phase = "idle"
    /\ raised = FALSE
    /\ runs = 0
    /\ StepIdle
    /\ \E fs \in VoteBatches :
           probe = [fn |-> "detectConfiguration", candidates |-> Candidates(fs),
                    i |-> 0, westerlyVotes |-> 0, easterlyVotes |-> 0,
                    cast |-> <<>>, result |-> Undefined]

\* one turn of candidates.forEach (app.js:350-356); cast records what the
\* candidate added to each counter
VoteNext ==
    /\ probe.fn = "detectConfiguration"
    /\ probe.result = Undefined
    /\ probe.i < Len(probe.candidates)
    /\ LET f == probe.candidates[probe.i + 1]
           w == votesWesterly(f)
           e == votesEasterly(f)
       IN  probe' = [probe EXCEPT
                        !.i = @ + 1,
                        !.westerlyVotes = IF w THEN @ + 1 ELSE @,
                        !.easterlyVotes = IF e THEN @ + 1 ELSE @,
                        !.cast = Append(@, [westerly |-> w, easterly |-> e])]
    /\ UNCHANGED <<flights, activeConfig, phase, raised, runs, pc, cur, stmt, todo, log>>

\* the return of app.js:342-345 or app.js:358
DetectReturn ==
    /\ probe.fn = "detectConfiguration"
    /\ probe.result = Undefined
    /\ probe.i = Len(probe.candidates)
    /\ probe' = [probe EXCEPT !.result =
                    IF Len(probe.candidates) = 0 THEN Str("westerly")
                    ELSE IF probe.westerlyVotes >= probe.easterlyVotes
                         THEN Str("westerly") ELSE Str("easterly")]
    /\ UNCHANGED <<flights, activeConfig, phase, raised, runs, pc, cur, stmt, todo, log>>

NextVotes == VoteNext \/ DetectReturn

SpecVotes == InitVotes /\ [][NextVotes]_vars

\* ---------------------------------------------------------------------------
\* Properties, continued
\* ---------------------------------------------------------------------------

\* C11: for whole-degree arguments angleDiff(a, b) lies in [-180, 180], differs
\* from a - b by a multiple of 360, and angleDiff(350, 10) is -20.
C11_AngleDiffNormalised ==
    (probe.fn = "angleDiff" /\ probe.result # Undefined) =>
        LET a == probe.args[1]
            b == probe.args[2]
            r == ToNumber(probe.result)
        IN  /\ r >= -180 /\ r <= 180
            /\ (r - (a - b)) % 360 = 0
            /\ (a = 350 /\ b = 10) => r = -20

\* a call whose remainder is negative, so that the wrap of line 323 is taken
C11_Witness ==
    /\ probe.fn = "angleDiff"
    /\ probe.args = <<10, 350>>
    /\ probe.result = Num(20)

\* C12: in a returned batch no flight is both departing and arriving, and a
\* flight farther than 80 km or higher than 4000 m is not arriving.
C12_ArrivingExcludesDeparting ==
    Returned =>
        \A k \in Flights :
            LET f == flights[k]
            IN  /\ ~(f.isDeparting = True /\ f.isArriving = True)
                /\ f.isDeparting = True => f.isArriving = False
                /\ ToNumber(f.distanceToAirport) > 80000 => f.isArriving = False
                /\ (f.baroAltitude.t = "number" /\ ToNumber(f.baroAltitude) > 4000)
                       => f.isArriving = False

\* a departing flight that passes every other test of isArriving: within 5 km,
\* at 1000 m, on the westerly landing heading, climbing at 0.8 m/s
C12_Witness ==
    /\ Returned
    /\ \E k \in Flights :
        /\ ToNumber(flights[k].distanceToAirport) <= 5000
        /\ flights[k].baroAltitude = Num(1000)
        /\ flights[k].heading = Num(250)
        /\ flights[k].verticalRate = Num(8)
        /\ flights[k].isDeparting = True
        /\ flights[k].isArriving = False

\* C13 as stated: a candidate may cast a vote for both configurations, so once
\* a batch with every whole-degree heading is tallied, some candidate has.
C13_AsClaimed ==
    (/\ probe.fn = "detectConfiguration"
     /\ probe.result # Undefined
     /\ Len(probe.candidates) = 360) =>
        \E k \in 1..Len(probe.cast) : probe.cast[k].westerly /\ probe.cast[k].easterly

\* C13: a candidate casts a vote for westerly, for easterly or for neither,
\* never for both, so the votes of a run never outnumber its candidates.
C13_AtMostOneVote ==
    probe.fn = "detectConfiguration" =>
        /\ \A k \in 1..Len(probe.cast) :
               ~(probe.cast[k].westerly /\ probe.cast[k].easterly)
        /\ probe.westerlyVotes + probe.easterlyVotes <= probe.i
        /\ probe.i <= Len(probe.candidates)

\* a finished run in which candidates voted westerly, easterly and for
\* neither, with fewer votes than candidates
C13_Witness ==
    /\ probe.fn = "detectConfiguration"
    /\ probe.result # Undefined
    /\ \E k \in 1..Len(probe.cast) : probe.cast[k].westerly
    /\ \E k \in 1..Len(probe.cast) : probe.cast[k].easterly
    /\ \E k \in 1..Len(probe.cast) :
           ~probe.cast[k].westerly /\ ~probe.cast[k].easterly
    /\ probe.westerlyVotes + probe.easterlyVotes < Len(probe.candidates)

\* the configuration the predictions of a returned batch were made with
Given == CONFIGS[ToConfig(activeConfig)]

\* the place of a runway in the configuration
PlaceOf(rwy) == CHOOSE k \in 1..Len(Given) : Str(Given[k]) = rwy

\* C14: the runway predicted for an arriving flight belongs to the
\* configuration, no runway of the configuration scores lower, and every
\* runway before it in the configuration's order scores strictly higher.
C14_FirstMinimumWins ==
    (Returned /\ ~raised) =>
        \A k \in Flights :
            LET f == flights[k]
            IN  f.isArriving = True =>
                    /\ \E j \in 1..Len(Given) : f.predictedRunway = Str(Given[j])
                    /\ \A j \in 1..Len(Given) :
                           /\ scoreOf(f, Given[j]) >= scoreOf(f, Given[PlaceOf(f.predictedRunway)])
                           /\ j < PlaceOf(f.predictedRunway) =>
                                  scoreOf(f, Given[j]) > scoreOf(f, Given[PlaceOf(f.predictedRunway)])

\* an arriving flight for which 25C and 25L score the same and 25R scores
\* higher: 25C, the earlier of the two, is predicted
C14_Witness ==
    /\ Returned
    /\ activeConfig = Str("westerly")
    /\ \E k \in Flights :
        /\ flights[k].isArriving = True
        /\ scoreOf(flights[k], "25C") = scoreOf(flights[k], "25L")
        /\ scoreOf(flights[k], "25C") < scoreOf(flights[k], "25R")
        /\ flights[k].predictedRunway = Str("25C")

\* the scores of a flight in the order of the configuration
GivenScores(f) == [j \in 1..Len(Given) |-> scoreOf(f, Given[j])]

\* the smallest of a sequence of numbers
Least(sc) == CHOOSE m \in {sc[j] : j \in 1..Len(sc)} : \A j \in 1..Len(sc) : m <= sc[j]

\* the confidence as section 4.4 of the specification computes it, step by
\* step, in 1/90000: otherScore, base, near boost, distance factor, descent boost
C15_Reference(f) ==
    LET sc         == GivenScores(f)
        bestScore  == Least(sc)
        unequal    == {j \in 1..Len(sc) : sc[j] # bestScore}
        otherScore == IF unequal = {} THEN bestScore
                      ELSE sc[CHOOSE j \in unequal : \A i \in unequal : j <= i]
        separation == otherScore - bestScore
        step0      == IF 45000 + 5 * separation > 90000 THEN 90000
                      ELSE 45000 + 5 * separation
        distance   == ToNumber(f.distanceToAirport)
        offFirst   == Abs(angleDiff(ToNumber(f.heading), RUNWAYS[Given[1]].heading))
        step1      == IF distance < 20000 /\ offFirst < 10
                      THEN (IF step0 + 18000 > 90000 THEN 90000 ELSE step0 + 18000)
                      ELSE step0
        step2      == IF distance > 50000 THEN (step1 * 6) \div 10
                      ELSE IF distance > 30000 THEN (step1 * 8) \div 10
                      ELSE step1
        step3      == IF f.verticalRate.t = "number" /\ ToNumber(f.verticalRate) < -20
                      THEN (IF step2 + 9000 > 90000 THEN 90000 ELSE step2 + 9000)
                      ELSE step2
    IN  step3

\* C15: the confidence stored for an arriving flight is the reference value:
\* base from the first score unequal to the best, then the near boost, then
\* the distance factor, then the descent boost.
C15_ConfidenceAsReference ==
    (Returned /\ ~raised) =>
        \A k \in Flights :
            flights[k].isArriving = True =>
                flights[k].confidence = Num(C15_Reference(flights[k]))

\* an arriving flight between 30 and 50 km, descending at 3 m/s, whose
\* confidence is below 1: the factor 0.8 is applied before the 0.1 is added,
\* 0.8 * (0.5 + 0.5 * 0.407) + 0.1 = 0.6628
C15_Witness ==
    /\ Returned
    /\ \E k \in Flights :
        /\ flights[k].isArriving = True
        /\ ToNumber(flights[k].distanceToAirport) > 30000
        /\ ToNumber(flights[k].distanceToAirport) <= 50000
        /\ flights[k].verticalRate = Num(-30)
        /\ flights[k].confidence = Num(59652)

\* the cross-track distances of a flight in the order of the configuration
GivenXtd(f) ==
    [j \in 1..Len(Given) |-> crossTrackDistance(f.latitude, f.longitude, Given[j])]

\* the first place that holds the smallest of a sequence of numbers
FirstLeast(sc) == CHOOSE j \in 1..Len(sc) : sc[j] = Least(sc) /\ \A i \in 1..(j - 1) : sc[i] # Least(sc)

\* the first cross-track distance unequal to the smallest, or the smallest
C16_OtherXtd(f) ==
    LET xt      == GivenXtd(f)
        unequal == {j \in 1..Len(xt) : xt[j] # Least(xt)}
    IN  IF unequal = {} THEN Least(xt)
        ELSE xt[CHOOSE j \in unequal : \A i \in unequal : j <= i]

=============================================================================
